---- MODULE Spec2Model ----
(***************************************************************************)
(* CHIP-8 emulator core (alpine-algo/c8emu): the Cpu aggregate of          *)
(* src/cpu.rs with its public operations new, load_rom, cpu_exec and       *)
(* set_display.  Every operation is one action.  A Rust panic (index out   *)
(* of bounds, arithmetic overflow in a build with overflow checks) ends    *)
(* the process: it is recorded in `panicked` and no operation runs after.  *)
(***************************************************************************)
EXTENDS Integers, Sequences, FiniteSets, TLC

\* ------------------------------------------------------------ constants
BASE == 512     \* 0x200, start of program memory
END == 4096     \* 0x1000, one past the last memory address

\* ------------------------------------------------------------ bounds
MaxLoads == 1   \* successful load_rom calls explored in one session
MaxStack == 17  \* stack depth past which further steps are not explored
MaxReloads == 2 \* successful load_rom calls explored in one session of SpecReload

\* ------------------------------------------------------------ bit operations
Byte == 0..255
Pow2(n) == 2 ^ n

RECURSIVE BitAnd(_, _)
BitAnd(a, b) ==
    IF a = 0 \/ b = 0 THEN 0
    ELSE (IF a % 2 = 1 /\ b % 2 = 1 THEN 1 ELSE 0) + 2 * BitAnd(a \div 2, b \div 2)

RECURSIVE BitOr(_, _)
BitOr(a, b) ==
    IF a = 0 THEN b
    ELSE IF b = 0 THEN a
    ELSE (IF a % 2 = 1 \/ b % 2 = 1 THEN 1 ELSE 0) + 2 * BitOr(a \div 2, b \div 2)

RECURSIVE BitXor(_, _)
BitXor(a, b) ==
    IF a = 0 THEN b
    ELSE IF b = 0 THEN a
    ELSE (IF a % 2 # b % 2 THEN 1 ELSE 0) + 2 * BitXor(a \div 2, b \div 2)

Shr(a, n) == a \div Pow2(n)
Shl8(a, n) == (a * Pow2(n)) % 256       \* u8 << n keeps the low 8 bits
AsU8(a) == a % 256                      \* `as u8`

\* ------------------------------------------------------------ instruction fields
OpInd(cmd) == Shr(Shr(cmd, 8), 4)               \* (cmd >> 8) >> 4
OpX(cmd) == Shr(BitAnd(3840, cmd), 8)           \* (0x0F00 & cmd) >> 8
OpY(cmd) == Shr(BitAnd(240, cmd), 4)            \* (0x00F0 & cmd) >> 4
OpN(cmd) == BitAnd(15, cmd)                     \* 0x000F & cmd
OpKK(cmd) == BitAnd(255, cmd)                   \* 0x00FF & cmd
OpNNN(cmd) == BitAnd(4095, cmd)                 \* 0x0FFF & cmd

\* ------------------------------------------------------------ ROM files (inputs)
\* An instruction word as its two bytes, big-endian, and a program as bytes.
RECURSIVE Prog(_)
Prog(ws) ==
    IF ws = <<>> THEN <<>>
    ELSE <<Head(ws) \div 256, Head(ws) % 256>> \o Prog(Tail(ws))

\* A ROM of n bytes: `head` at its start, `tail` at its end, zero between.
Padded(head, n, tail) ==
    head \o [k \in 1..(n - Len(head) - Len(tail)) |-> 0] \o tail

File(bytes) == [kind |-> "file", bytes |-> bytes]
Missing == [kind |-> "missing", bytes |-> <<>>]
Unreadable == [kind |-> "unreadable", bytes |-> <<>>]

\* The files a session can name: control-flow programs, arithmetic programs,
\* display, timer and keypad programs, ROMs at and past the size limit, and
\* paths that cannot be opened or read.
Files ==
    [ empty      |-> File(<<>>),
      ret        |-> File(Prog(<<\h00EE>>)),
      cls        |-> File(Prog(<<\h6A12, \h00E0>>)),
      call_self  |-> File(Prog(<<\h2200>>)),
      call_ret   |-> File(Prog(<<\h2204, \h0000, \h00EE>>)),
      nested     |-> File(Prog(<<\h2202, \h2204, \h00EE>>)),
      jmp_abc    |-> File(Prog(<<\h1ABC>>)),
      jmp_zero   |-> File(Prog(<<\h1000>>)),
      jmp_ffe    |-> File(Prog(<<\h6A12, \h1FFE>>)),
      jmp_fff    |-> File(Prog(<<\h1FFF>>)),
      jmp_v0     |-> File(Prog(<<\h6004, \hB200>>)),
      jmp_v0_out |-> File(Prog(<<\h60FF, \hBFFF>>)),
      se         |-> File(Prog(<<\hC303, \h3301>>)),
      sne        |-> File(Prog(<<\hC303, \h4301>>)),
      se_reg     |-> File(Prog(<<\hC201, \hCE01, \h52E0>>)),
      sne_reg    |-> File(Prog(<<\hC201, \hCE01, \h92E0>>)),
      add        |-> File(Prog(<<\hC081, \hC181, \h8014>>)),
      add_ff_01  |-> File(Prog(<<\h6AFF, \h6B01, \h8AB4>>)),
      add_vf     |-> File(Prog(<<\h6E80, \hCF81, \h8EF4>>)),
      sub        |-> File(Prog(<<\hC081, \hC181, \h8015>>)),
      sub_05_0a  |-> File(Prog(<<\h6A05, \h6B0A, \h8AB5>>)),
      sub_vf     |-> File(Prog(<<\h6E01, \hCF81, \h8EF5>>)),
      shr_vf     |-> File(Prog(<<\h6F03, \h80F6>>)),
      add_byte   |-> File(Prog(<<\h6AFF, \h7A02>>)),
      draw       |-> File(Prog(<<\h5001, \hA200, \hD001>>)),
      timer_key  |-> File(Prog(<<\h6A02, \hFA15, \hFB07, \hF00A>>)),
      store      |-> File(Prog(<<\h6A12, \hA300, \hFA55>>)),
      call_top   |-> File(Padded(Prog(<<\h1FFE>>), END - BASE, Prog(<<\h00EE, \h2FFC>>))),
      full       |-> File(Padded(Prog(<<\h1FFC>>), END - BASE, Prog(<<\h6A12, \h6B34>>))),
      too_big    |-> File(Padded(Prog(<<\h1ABC>>), END - BASE + 1, Prog(<<\h00EE>>))),
      missing    |-> Missing,
      directory  |-> Unreadable ]

Paths == DOMAIN Files

\* ------------------------------------------------------------ state
VARIABLES
    memory,           \* [u8; END], kept as the map of its non-zero bytes (see MemAt)
    rom_size,         \* usize
    v,                \* [u8; 16]
    i,                \* u16
    pc,               \* u16
    stack,            \* Vec<u16>
    sp,               \* u8
    dt,               \* u8
    st,               \* u8
    keypad,           \* [bool; 16]
    display,          \* [[bool; 64]; 32], kept as the set of <<y, x>> that are true
    overflow_checks,  \* whether the build panics on integer overflow (debug) or wraps (release)
    panicked,         \* the process has panicked
    ret,              \* what the most recent operation returned
    loads,            \* successful load_rom calls so far
    prev              \* the Cpu before the most recent operation, when that was cpu_exec

cpu_vars == <<memory, rom_size, v, i, pc, stack, sp, dt, st, keypad, display>>
vars == <<memory, rom_size, v, i, pc, stack, sp, dt, st, keypad, display,
          overflow_checks, panicked, ret, loads, prev>>

\* The Cpu aggregate as one value.
Cpu ==
    [memory |-> memory, rom_size |-> rom_size, v |-> v, i |-> i, pc |-> pc,
     stack |-> stack, sp |-> sp, dt |-> dt, st |-> st, keypad |-> keypad,
     display |-> display, panicked |-> panicked]

SetCpu(c) ==
    /\ memory' = c.memory
    /\ rom_size' = c.rom_size
    /\ v' = c.v
    /\ i' = c.i
    /\ pc' = c.pc
    /\ stack' = c.stack
    /\ sp' = c.sp
    /\ dt' = c.dt
    /\ st' = c.st
    /\ keypad' = c.keypad
    /\ display' = c.display
    /\ panicked' = c.panicked

\* memory[a] for an index inside the array: a byte not in the map is 0.
MemAt(mem, a) == IF a \in DOMAIN mem THEN mem[a] ELSE 0

\* [0; END]
ZeroMemory == [a \in {} |-> 0]

\* display[y][x]
PixelAt(disp, x, y) == <<y, x>> \in disp

\* [[false; 64]; 32]
BlankDisplay == {}

NoPrev == [valid |-> FALSE]
Unit == [kind |-> "unit"]

\* Cpu::new()
Init ==
    /\ memory = ZeroMemory
    /\ rom_size = 0
    /\ v = [r \in 0..15 |-> 0]
    /\ i = 0
    /\ pc = 512
    /\ stack = <<>>
    /\ sp = 0
    /\ dt = 0
    /\ st = 0
    /\ keypad = [k \in 0..15 |-> FALSE]
    /\ display = BlankDisplay
    /\ overflow_checks \in BOOLEAN
    /\ panicked = FALSE
    /\ ret = Unit
    /\ loads = 0
    /\ prev = NoPrev

\* ------------------------------------------------------------ load_rom
\* Mutant of LoadResult: the limit is END, not END - BASE.
LoadResult_LimitIsEnd(path) ==
    LET f == Files[path]
        bytes_read == Len(f.bytes)
    IN  IF f.kind = "missing" THEN [kind |-> "RomOpenError"]
        ELSE IF f.kind = "unreadable" THEN [kind |-> "RomReadError"]
        ELSE IF bytes_read > END
             THEN [kind |-> "RomSizeError", max |-> END, actual |-> bytes_read]
        ELSE [kind |-> "Ok", bytes_read |-> bytes_read]

\* The value load_rom returns for the file at `path`.
LoadResult(path) ==
    LET f == Files[path]
        bytes_read == Len(f.bytes)
    IN  IF f.kind = "missing" THEN [kind |-> "RomOpenError"]
        ELSE IF f.kind = "unreadable" THEN [kind |-> "RomReadError"]
        ELSE IF bytes_read > END - BASE
             THEN [kind |-> "RomSizeError", max |-> END - BASE, actual |-> bytes_read]
        ELSE [kind |-> "Ok", bytes_read |-> bytes_read]

\* Mutant of CopyRom: the last byte of the ROM is not copied.
CopyRom_DropsLastByte(mem, buf) ==
    LET dst == BASE..(BASE + Len(buf) - 2)
        byte(a) == IF a \in dst THEN buf[a - BASE + 1] ELSE MemAt(mem, a)
    IN  [a \in {b \in (DOMAIN mem) \cup dst : byte(b) # 0} |-> byte(a)]

\* self.memory[BASE..BASE + bytes_read].copy_from_slice(&buf)
CopyRom(mem, buf) ==
    LET dst == BASE..(BASE + Len(buf) - 1)
        byte(a) == IF a \in dst THEN buf[a - BASE + 1] ELSE MemAt(mem, a)
    IN  [a \in {b \in (DOMAIN mem) \cup dst : byte(b) # 0} |-> byte(a)]

\* Mutant of LoadRomWithin: a successful load also restarts the program at 0x200
\* with an empty stack.
LoadRomWithin_Restarts(path, max) ==
    /\ ~panicked
    /\ LET r == LoadResult(path)
       IN  /\ ret' = r
           /\ IF r.kind = "Ok"
              THEN /\ loads < max
                   /\ memory' = CopyRom(memory, Files[path].bytes)
                   /\ rom_size' = r.bytes_read
                   /\ loads' = loads + 1
                   /\ pc' = 512
                   /\ stack' = <<>>
              ELSE UNCHANGED <<memory, rom_size, loads, pc, stack>>
    /\ prev' = NoPrev
    /\ UNCHANGED <<v, i, sp, dt, st, keypad, display, overflow_checks, panicked>>

\* load_rom(path) in a session that explores at most `max` successful loads.
LoadRomWithin(path, max) ==
    /\ ~panicked
    /\ LET r == LoadResult(path)
       IN  /\ ret' = r
           /\ IF r.kind = "Ok"
              THEN /\ loads < max
                   /\ memory' = CopyRom(memory, Files[path].bytes)
                   /\ rom_size' = r.bytes_read
                   /\ loads' = loads + 1
              ELSE UNCHANGED <<memory, rom_size, loads>>
    /\ prev' = NoPrev
    /\ UNCHANGED <<v, i, pc, stack, sp, dt, st, keypad, display,
                   overflow_checks, panicked>>

LoadRom(path) == LoadRomWithin(path, MaxLoads)

\* ------------------------------------------------------------ cpu_exec
\* A panic: the process ends with the Cpu as it was.
Panic(c) == [c EXCEPT !.panicked = TRUE]

\* Both indices of next_instr lie inside `memory`.
FetchInBounds(c) == c.pc + 1 <= END - 1

\* ((b1 as u16) << 8) | b2
next_instr(c) == BitOr(MemAt(c.memory, c.pc) * 256, MemAt(c.memory, c.pc + 1))

\* Mutant of exec_cls: only row 0 of the display is cleared.
exec_cls_FirstRowOnly(c, cmd) == [c EXCEPT !.display = {p \in @ : p[1] # 0}]

\* 00E0 - CLS
exec_cls(c, cmd) == [c EXCEPT !.display = BlankDisplay]

\* Mutant of exec_ret: the pop is unwrapped, so an empty stack panics.
exec_ret_Unwrap(c, cmd) ==
    IF Len(c.stack) = 0 THEN Panic(c)
    ELSE [c EXCEPT !.pc = c.stack[Len(c.stack)],
                   !.stack = SubSeq(c.stack, 1, Len(c.stack) - 1)]

\* 00EE - RET
exec_ret(c, cmd) ==
    IF Len(c.stack) = 0 THEN c
    ELSE [c EXCEPT !.pc = c.stack[Len(c.stack)],
                   !.stack = SubSeq(c.stack, 1, Len(c.stack) - 1)]

\* 0NNN - only logs a warning
exec_sys(c, cmd) == c

\* Mutant of exec_jmp: the address mask is 0x00FF.
exec_jmp_ByteMask(c, cmd) == [c EXCEPT !.pc = OpKK(cmd)]

\* 1nnn - JMP addr
exec_jmp(c, cmd) == [c EXCEPT !.pc = OpNNN(cmd)]

\* Mutant of exec_call: the address after the call is pushed.
exec_call_PushesNext(c, cmd) ==
    [c EXCEPT !.stack = Append(c.stack, c.pc + 2), !.pc = OpNNN(cmd)]

\* 2nnn - CALL addr
exec_call(c, cmd) == [c EXCEPT !.stack = Append(c.stack, c.pc), !.pc = OpNNN(cmd)]

\* 3xkk - SE Vx, byte
exec_se_byte(c, cmd) ==
    IF c.v[OpX(cmd)] = AsU8(OpKK(cmd)) THEN [c EXCEPT !.pc = c.pc + 2] ELSE c

\* 4xkk - SNE Vx, byte
exec_sne_byte(c, cmd) ==
    IF c.v[OpX(cmd)] # AsU8(OpKK(cmd)) THEN [c EXCEPT !.pc = c.pc + 2] ELSE c

\* 5xy_ - SE Vx, Vy
exec_se_reg(c, cmd) ==
    IF c.v[OpX(cmd)] = c.v[OpY(cmd)] THEN [c EXCEPT !.pc = c.pc + 2] ELSE c

\* Mutant of exec_ld_byte: the byte mask is 0x000F.
exec_ld_byte_NibbleMask(c, cmd) ==
    [c EXCEPT !.v[OpX(cmd)] = AsU8(OpN(cmd)), !.pc = c.pc + 2]

\* 6xkk - LD Vx, byte
exec_ld_byte(c, cmd) ==
    [c EXCEPT !.v[OpX(cmd)] = AsU8(OpKK(cmd)), !.pc = c.pc + 2]

\* 7xkk - ADD Vx, byte: u8 += u8
exec_add_byte(c, cmd) ==
    LET x == OpX(cmd)
        sum == c.v[x] + AsU8(OpKK(cmd))
    IN  IF sum > 255 /\ overflow_checks THEN Panic(c)
        ELSE [c EXCEPT !.v[x] = sum % 256, !.pc = c.pc + 2]

\* 8xy0 - LD Vx, Vy
exec_ld_reg(c, cmd) ==
    [c EXCEPT !.v[OpX(cmd)] = c.v[OpY(cmd)], !.pc = c.pc + 2]

\* 8xy1 - OR Vx, Vy
exec_or(c, cmd) ==
    [c EXCEPT !.v[OpX(cmd)] = BitOr(c.v[OpX(cmd)], c.v[OpY(cmd)]), !.pc = c.pc + 2]

\* 8xy2 - AND Vx, Vy
exec_and(c, cmd) ==
    [c EXCEPT !.v[OpX(cmd)] = BitAnd(c.v[OpX(cmd)], c.v[OpY(cmd)]), !.pc = c.pc + 2]

\* 8xy3 - XOR Vx, Vy
exec_xor(c, cmd) ==
    [c EXCEPT !.v[OpX(cmd)] = BitXor(c.v[OpX(cmd)], c.v[OpY(cmd)]), !.pc = c.pc + 2]

\* 8xy4 - ADD Vx, Vy: `sum` is a u8, the carry test compares it with u8::MAX
exec_add(c, cmd) ==
    LET x == OpX(cmd)
        y == OpY(cmd)
        wide == c.v[x] + c.v[y]
        sum == wide % 256
        vf == IF sum > 255 THEN 1 ELSE 0
        v1 == [c.v EXCEPT ![15] = vf]
    IN  IF wide > 255 /\ overflow_checks THEN Panic(c)
        ELSE [c EXCEPT !.v = [v1 EXCEPT ![x] = BitAnd(sum, 255)], !.pc = c.pc + 2]

\* Mutant of exec_sub: VF is set only when Vx > Vy.
exec_sub_StrictBorrow(c, cmd) ==
    LET x == OpX(cmd)
        y == OpY(cmd)
        wide == c.v[x] - c.v[y]
        sub == (wide + 256) % 256
        vf == IF c.v[x] > c.v[y] THEN 1 ELSE 0
        v1 == [c.v EXCEPT ![15] = vf]
    IN  IF wide < 0 /\ overflow_checks THEN Panic(c)
        ELSE [c EXCEPT !.v = [v1 EXCEPT ![x] = sub], !.pc = c.pc + 2]

\* 8xy5 - SUB Vx, Vy
exec_sub(c, cmd) ==
    LET x == OpX(cmd)
        y == OpY(cmd)
        wide == c.v[x] - c.v[y]
        sub == (wide + 256) % 256
        vf == IF c.v[x] >= c.v[y] THEN 1 ELSE 0
        v1 == [c.v EXCEPT ![15] = vf]
    IN  IF wide < 0 /\ overflow_checks THEN Panic(c)
        ELSE [c EXCEPT !.v = [v1 EXCEPT ![x] = sub], !.pc = c.pc + 2]

\* 8xy6 - Vx = Vy SHR 1: VF is written first, then Vy is read again
exec_shr(c, cmd) ==
    LET x == OpX(cmd)
        y == OpY(cmd)
        v1 == [c.v EXCEPT ![15] = BitAnd(c.v[y], 1)]
    IN  [c EXCEPT !.v = [v1 EXCEPT ![x] = Shr(v1[y], 1)], !.pc = c.pc + 2]

\* 8xy7 - SUBN Vx, Vy
exec_subn(c, cmd) ==
    LET x == OpX(cmd)
        y == OpY(cmd)
        wide == c.v[y] - c.v[x]
        sub == (wide + 256) % 256
        vf == IF c.v[y] >= c.v[x] THEN 1 ELSE 0
        v1 == [c.v EXCEPT ![15] = vf]
    IN  IF wide < 0 /\ overflow_checks THEN Panic(c)
        ELSE [c EXCEPT !.v = [v1 EXCEPT ![x] = sub], !.pc = c.pc + 2]

\* 8xyE - Vx = Vy SHL 1: VF is written first, then Vy is read again
exec_shl(c, cmd) ==
    LET x == OpX(cmd)
        y == OpY(cmd)
        v1 == [c.v EXCEPT ![15] = BitAnd(Shr(c.v[y], 7), 1)]
    IN  [c EXCEPT !.v = [v1 EXCEPT ![x] = Shl8(v1[y], 1)], !.pc = c.pc + 2]

\* 8xyN
exec_8(c, cmd) ==
    CASE OpN(cmd) = 0 -> exec_ld_reg(c, cmd)
      [] OpN(cmd) = 1 -> exec_or(c, cmd)
      [] OpN(cmd) = 2 -> exec_and(c, cmd)
      [] OpN(cmd) = 3 -> exec_xor(c, cmd)
      [] OpN(cmd) = 4 -> exec_add(c, cmd)
      [] OpN(cmd) = 5 -> exec_sub(c, cmd)
      [] OpN(cmd) = 6 -> exec_shr(c, cmd)
      [] OpN(cmd) = 7 -> exec_subn(c, cmd)
      [] OpN(cmd) = 14 -> exec_shl(c, cmd)
      [] OTHER -> c

\* 9xy_ - SNE Vx, Vy
exec_sne_reg(c, cmd) ==
    IF c.v[OpX(cmd)] # c.v[OpY(cmd)] THEN [c EXCEPT !.pc = c.pc + 2] ELSE c

\* Annn - LD I, addr
exec_ld_i(c, cmd) == [c EXCEPT !.i = OpNNN(cmd), !.pc = c.pc + 2]

\* Bnnn - JMP [nnn + V0], a u16 sum of at most 0x0FFF + 0xFF
exec_jmp_v0(c, cmd) == [c EXCEPT !.pc = OpNNN(cmd) + c.v[0]]

\* Cxkk - LD Vx, rand() & kk
exec_rnd(c, cmd, rand) ==
    [c EXCEPT !.v[OpX(cmd)] = BitAnd(rand, AsU8(OpKK(cmd))), !.pc = c.pc + 2]

\* Dxyn - DRAW: the arm is empty
exec_draw(c, cmd) == c

\* Ex9E, ExA1 and the rest of the family: the arms are empty
exec_E(c, cmd) == c

\* Fx07 - LD Vx, DT
exec_ld_vx_dt(c, cmd) == [c EXCEPT !.v[OpX(cmd)] = c.dt, !.pc = c.pc + 2]

\* Fx15 - LD DT, Vx
exec_ld_dt_vx(c, cmd) == [c EXCEPT !.dt = c.v[OpX(cmd)], !.pc = c.pc + 2]

\* Fx18 - LD ST, Vx
exec_ld_st_vx(c, cmd) == [c EXCEPT !.st = c.v[OpX(cmd)], !.pc = c.pc + 2]

\* Fx1E - ADD I, Vx: u16 += u16
exec_add_i(c, cmd) ==
    LET sum == c.i + c.v[OpX(cmd)]
    IN  IF sum > 65535 /\ overflow_checks THEN Panic(c)
        ELSE [c EXCEPT !.i = sum % 65536, !.pc = c.pc + 2]

\* Mutant of exec_F: Fx55 stores V0..Vx in memory from address I on.
exec_F_StoresRegisters(c, cmd) ==
    CASE OpKK(cmd) = 7 -> exec_ld_vx_dt(c, cmd)
      [] OpKK(cmd) = 21 -> exec_ld_dt_vx(c, cmd)
      [] OpKK(cmd) = 24 -> exec_ld_st_vx(c, cmd)
      [] OpKK(cmd) = 30 -> exec_add_i(c, cmd)
      [] OpKK(cmd) = 85 ->
            LET dst == c.i..(c.i + OpX(cmd))
                byte(a) == IF a \in dst THEN c.v[a - c.i] ELSE MemAt(c.memory, a)
            IN  [c EXCEPT !.memory =
                    [a \in {b \in (DOMAIN c.memory) \cup dst : byte(b) # 0} |-> byte(a)]]
      [] OTHER -> c

\* FxNN: Fx0A, Fx29, Fx33, Fx55, Fx65 only bind x; unassigned codes do nothing
exec_F(c, cmd) ==
    CASE OpKK(cmd) = 7 -> exec_ld_vx_dt(c, cmd)
      [] OpKK(cmd) = 21 -> exec_ld_dt_vx(c, cmd)
      [] OpKK(cmd) = 24 -> exec_ld_st_vx(c, cmd)
      [] OpKK(cmd) = 30 -> exec_add_i(c, cmd)
      [] OTHER -> c

\* 0x0 family
exec_0(c, cmd) ==
    CASE cmd = 224 -> exec_cls(c, cmd)
      [] cmd = 238 -> exec_ret(c, cmd)
      [] OTHER -> exec_sys(c, cmd)

\* match ind { ... }
dispatch(c, cmd, rand) ==
    CASE OpInd(cmd) = 0 -> exec_0(c, cmd)
      [] OpInd(cmd) = 1 -> exec_jmp(c, cmd)
      [] OpInd(cmd) = 2 -> exec_call(c, cmd)
      [] OpInd(cmd) = 3 -> exec_se_byte(c, cmd)
      [] OpInd(cmd) = 4 -> exec_sne_byte(c, cmd)
      [] OpInd(cmd) = 5 -> exec_se_reg(c, cmd)
      [] OpInd(cmd) = 6 -> exec_ld_byte(c, cmd)
      [] OpInd(cmd) = 7 -> exec_add_byte(c, cmd)
      [] OpInd(cmd) = 8 -> exec_8(c, cmd)
      [] OpInd(cmd) = 9 -> exec_sne_reg(c, cmd)
      [] OpInd(cmd) = 10 -> exec_ld_i(c, cmd)
      [] OpInd(cmd) = 11 -> exec_jmp_v0(c, cmd)
      [] OpInd(cmd) = 12 -> exec_rnd(c, cmd, rand)
      [] OpInd(cmd) = 13 -> exec_draw(c, cmd)
      [] OpInd(cmd) = 14 -> exec_E(c, cmd)
      [] OpInd(cmd) = 15 -> exec_F(c, cmd)
      [] OTHER -> c

\* cpu_exec: fetch (an index past the array panics), then decode and execute
cpu_exec(c, rand) ==
    IF ~FetchInBounds(c) THEN Panic(c)
    ELSE LET run[cmd \in {next_instr(c)}] == dispatch(c, cmd, rand)
         IN  run[next_instr(c)]

\* The values rand & kk can take over all bytes rand: the bytes whose set bits
\* are all set in kk.
RECURSIVE MaskedBytes(_)
MaskedBytes(kk) ==
    IF kk = 0 THEN {0}
    ELSE LET high == MaskedBytes(kk \div 2)
         IN  {2 * r : r \in high} \cup (IF kk % 2 = 1 THEN {2 * r + 1 : r \in high} ELSE {})

\* The bytes rand::thread_rng().gen() can return where this step calls it (the
\* Cxkk arm), one for each value of rand & kk; no other arm draws a byte.
RandomBytes(c) ==
    IF FetchInBounds(c) /\ OpInd(next_instr(c)) = 12
    THEN MaskedBytes(AsU8(OpKK(next_instr(c))))
    ELSE {0}

CpuExec ==
    /\ ~panicked
    /\ Len(stack) < MaxStack
    /\ \E c \in {Cpu} :
          /\ \E rand \in RandomBytes(c) : \E r \in {cpu_exec(c, rand)} : SetCpu(r)
          /\ prev' = [valid |-> TRUE, cpu |-> c]
    /\ ret' = Unit
    /\ UNCHANGED <<overflow_checks, loads>>

\* ------------------------------------------------------------ set_display
\* self.display[y][x] = value
set_display(c, x, y, value) ==
    IF y > 31 \/ x > 63 THEN Panic(c)
    ELSE [c EXCEPT !.display = IF value THEN @ \cup {<<y, x>>} ELSE @ \ {<<y, x>>}]

\* The column of the pixel the driver writes on its first display tick.
DisplayXs == {0}

SetDisplay(x, y, value) ==
    /\ ~panicked
    /\ \E r \in {set_display(Cpu, x, y, value)} : SetCpu(r)
    /\ prev' = NoPrev
    /\ ret' = Unit
    /\ UNCHANGED <<overflow_checks, loads>>

\* ------------------------------------------------------------ specification
Next ==
    \/ \E path \in Paths : LoadRom(path)
    \/ CpuExec
    \/ \E x \in DisplayXs : SetDisplay(x, 10, TRUE)

Spec == Init /\ [][Next]_vars

\* A session that loads one ROM over another: the ROMs that leave registers,
\* the stack and a timer set, and the empty ROM.
ReloadPaths == {"empty", "call_ret", "timer_key", "add_byte"}

NextReload ==
    \/ \E path \in ReloadPaths : LoadRomWithin(path, MaxReloads)
    \/ CpuExec
    \/ \E x \in DisplayXs : SetDisplay(x, 10, TRUE)

SpecReload == Init /\ [][NextReload]_vars

\* ------------------------------------------------------------ properties
\* The instruction word at pc, and the one the most recent cpu_exec ran.
Fetched == next_instr(Cpu)
Ran == next_instr(prev.cpu)

\* A cpu_exec step that fetched its instruction.
ExecStep == prev'.valid /\ FetchInBounds(Cpu) /\ CpuExec

\* The most recent operation was a cpu_exec that fetched its instruction.
JustRan == prev.valid /\ FetchInBounds(prev.cpu)

\* C1: a ROM of s <= 3584 bytes loads: load_rom returns Ok with bytes_read = s,
\* memory[0x200 + k] is the k-th ROM byte for every k < s, and memory below
\* 0x200 is as before.
C1_LoadCopiesRom ==
    [][\A path \in Paths :
          LET f == Files[path]
              s == Len(f.bytes)
          IN  (f.kind = "file" /\ s <= 3584 /\ ret' # Unit /\ LoadRom(path)) =>
                 /\ ret' = [kind |-> "Ok", bytes_read |-> s]
                 /\ \A k \in 0..(s - 1) : MemAt(memory', 512 + k) = f.bytes[k + 1]
                 /\ \A a \in 0..511 : MemAt(memory', a) = MemAt(memory, a)]_vars

\* C1 witness: the 3584-byte ROM is in memory up to its last byte at 0xFFF.
C1_Witness ==
    /\ ret = [kind |-> "Ok", bytes_read |-> 3584]
    /\ MemAt(memory, 512) = 31
    /\ MemAt(memory, 4095) = 52

\* C2: a ROM of s > 3584 bytes is refused with RomSizeError {max: 3584,
\* actual: s}, and the whole Cpu is as it was before the call.
C2_TooLargeLeavesState ==
    [][\A path \in Paths :
          LET f == Files[path]
              s == Len(f.bytes)
          IN  (f.kind = "file" /\ s > 3584 /\ ret' # Unit /\ LoadRom(path)) =>
                 /\ ret' = [kind |-> "RomSizeError", max |-> 3584, actual |-> s]
                 /\ UNCHANGED cpu_vars
                 /\ ~panicked']_vars

\* C2 witness: the refusal comes after a load, an instruction and a pixel write.
C2_Witness ==
    /\ ret = [kind |-> "RomSizeError", max |-> 3584, actual |-> 3585]
    /\ rom_size = 4
    /\ v[10] = 18
    /\ display # BlankDisplay

\* C3: once a ROM is loaded, every instruction fetch stays inside memory:
\* pc + 1 <= 0xFFF in every state a fetch can start from.
C3_FetchStaysInMemory == (loads > 0 /\ ~panicked) => pc + 1 <= 4095

\* C4: a call 2nnn at p followed by the return 00EE stored at nnn leaves pc = p
\* and the stack, registers, I, timers, memory and framebuffer as before the call.
C4_CallThenReturn ==
    [][(/\ JustRan
        /\ Ran \div 4096 = 2
        /\ ExecStep
        /\ Fetched = 238) =>
           /\ pc' = prev.cpu.pc
           /\ stack' = prev.cpu.stack
           /\ v' = prev.cpu.v
           /\ i' = prev.cpu.i
           /\ dt' = prev.cpu.dt
           /\ st' = prev.cpu.st
           /\ memory' = prev.cpu.memory
           /\ display' = prev.cpu.display
           /\ ~panicked']_vars

\* C4 witness: a return has just undone a call made with a non-empty stack.
C4_Witness ==
    /\ JustRan
    /\ Ran = 238
    /\ prev.cpu.stack = <<512, 514>>
    /\ pc = 514
    /\ Fetched \div 4096 = 2
    /\ stack = <<512>>

\* C5: a return 00EE on an empty stack does not fault and changes nothing.
C5_ReturnOnEmptyStack ==
    [][(ExecStep /\ Fetched = 238 /\ stack = <<>>) =>
           (UNCHANGED cpu_vars /\ ~panicked')]_vars

\* C5 witness: a return has run on an empty stack, and the next step is the same one.
C5_Witness ==
    /\ JustRan
    /\ Ran = 238
    /\ prev.cpu.stack = <<>>
    /\ Fetched = 238
    /\ stack = <<>>

\* C6: the call stack never holds more than 16 return addresses.
C6_StackAtMost16 == Len(stack) <= 16

\* C7: a jump 1nnn sets pc to nnn and changes nothing else.
C7_JumpOnlySetsPc ==
    [][(ExecStep /\ Fetched \div 4096 = 1) =>
           /\ pc' = Fetched - 4096
           /\ UNCHANGED <<memory, rom_size, v, i, stack, sp, dt, st, keypad, display>>
           /\ ~panicked']_vars

\* C7 witness: 0x1ABC has run and pc is 0x0ABC.
C7_Witness == JustRan /\ Ran = 6844 /\ pc = 2748

\* What a conditional skip tests: 3xkk, 4xkk, 5xy0, 9xy0.
IsSkip(cmd) ==
    \/ cmd \div 4096 \in {3, 4}
    \/ cmd \div 4096 \in {5, 9} /\ cmd % 16 = 0

SkipTaken(cmd) ==
    LET x == (cmd \div 256) % 16
        y == (cmd \div 16) % 16
        kk == cmd % 256
    IN  CASE cmd \div 4096 = 3 -> v[x] = kk
          [] cmd \div 4096 = 4 -> v[x] # kk
          [] cmd \div 4096 = 5 -> v[x] = v[y]
          [] cmd \div 4096 = 9 -> v[x] # v[y]

\* C8: a conditional skip adds 4 to pc when its condition holds and 2 when it
\* does not, and changes no register.
C8_SkipAdds4Or2 ==
    [][(ExecStep /\ IsSkip(Fetched)) =>
           /\ pc' = pc + (IF SkipTaken(Fetched) THEN 4 ELSE 2)
           /\ v' = v]_vars

\* C9: add 8xy4 (x <= 14) that does not fault sets Vx to (Vx + Vy) mod 256 and
\* VF to 1 if Vx + Vy > 255, else 0.
C9_AddSetsCarry ==
    [][(/\ ExecStep
        /\ Fetched \div 4096 = 8
        /\ Fetched % 16 = 4
        /\ (Fetched \div 256) % 16 <= 14
        /\ ~panicked') =>
           LET x == (Fetched \div 256) % 16
               y == (Fetched \div 16) % 16
           IN  /\ v'[x] = (v[x] + v[y]) % 256
               /\ v'[15] = IF v[x] + v[y] > 255 THEN 1 ELSE 0]_vars

C11_ClearDisplay ==
    [][(ExecStep /\ Fetched = 224) =>
           /\ \A y \in 0..31 : \A x \in 0..63 : ~PixelAt(display', x, y)
           /\ UNCHANGED <<v, i, stack, dt, st, memory, keypad>>
           /\ ~panicked']_vars

\* C11 witness: 0x00E0 has run on a framebuffer with a lit pixel and VA = 0x12.
C11_Witness ==
    /\ JustRan
    /\ Ran = 224
    /\ PixelAt(prev.cpu.display, 0, 10)
    /\ display = BlankDisplay
    /\ v[10] = 18

\* C12: load-immediate 6xkk sets Vx to kk, advances pc by 2 and leaves every
\* other V register, I, stack, timers, memory and framebuffer unchanged.
C12_LoadImmediate ==
    [][(ExecStep /\ Fetched \div 4096 = 6) =>
           LET x == (Fetched \div 256) % 16
               kk == Fetched % 256
           IN  /\ v'[x] = kk
               /\ pc' = pc + 2
               /\ \A r \in 0..15 : r # x => v'[r] = v[r]
               /\ UNCHANGED <<i, stack, dt, st, memory, display>>
               /\ ~panicked']_vars

\* C12 witness: 0x6A12 has run: register 10 holds 0x12 and pc moved from 0x200
\* to 0x202.
C12_Witness ==
    /\ JustRan
    /\ Ran = 27154
    /\ prev.cpu.pc = 512
    /\ prev.cpu.v[10] = 0
    /\ v[10] = 18
    /\ pc = 514

\* The cells a draw Dxyn covers: bit b (from the most significant) of sprite
\* byte memory[I + r] is column (Vx + b) mod 64 of row (Vy + r) mod 32.
SpriteCells(c, cmd) ==
    LET x == (cmd \div 256) % 16
        y == (cmd \div 16) % 16
        n == cmd % 16
    IN  {<<(c.v[y] + r) % 32, (c.v[x] + b) % 64>> : <<r, b>> \in
            {rb \in (0..(n - 1)) \X (0..7) :
                (MemAt(c.memory, c.i + rb[1]) \div Pow2(7 - rb[2])) % 2 = 1}}

\* The framebuffer with the cells of `cells` flipped.
XorCells(disp, cells) == (disp \ cells) \cup (cells \ disp)

\* C13: a draw Dxyn XORs its n sprite rows onto the framebuffer with
\* wraparound and advances pc by 2; a second draw of the same sprite at the
\* same place right after the first restores the framebuffer the first one
\* found, and sets VF to 1 when the first one set a pixel.
C13_DrawTwiceRestores ==
    [][(ExecStep /\ Fetched \div 4096 = 13) =>
           /\ display' = XorCells(display, SpriteCells(Cpu, Fetched))
           /\ pc' = pc + 2
           /\ (/\ JustRan
               /\ Ran = Fetched
               /\ SpriteCells(prev.cpu, Ran) = SpriteCells(Cpu, Fetched)) =>
                  /\ display' = prev.cpu.display
                  /\ (display \ prev.cpu.display # {}) => v'[15] = 1]_vars

\* Wait-for-key Fx0A.
IsWaitKey(cmd) == cmd \div 4096 = 15 /\ cmd % 256 = 10

NoKeyPressed == \A k \in 0..15 : ~keypad[k]

\* An operation of the program that sets some key to pressed.
KeyPress == Next /\ \E k \in 0..15 : ~keypad[k] /\ keypad'[k]

\* C14: with wait-for-key Fx0A at pc and no key pressed, a cpu_exec step
\* changes nothing; a key can then be set to pressed, and with a key pressed a
\* cpu_exec step stores a pressed key in Vx and advances pc by 2.
C14_WaitForKey ==
    /\ []((~panicked /\ FetchInBounds(Cpu) /\ IsWaitKey(Fetched) /\ NoKeyPressed) =>
              ENABLED KeyPress)
    /\ [][(ExecStep /\ IsWaitKey(Fetched)) =>
              IF NoKeyPressed
              THEN UNCHANGED cpu_vars /\ ~panicked'
              ELSE /\ \E k \in 0..15 : keypad[k] /\ v'[(Fetched \div 256) % 16] = k
                   /\ pc' = pc + 2]_vars

\* A timer one tick later: one less while non-zero, zero stays zero.
Ticked(t) == IF t > 0 THEN t - 1 ELSE 0

\* An operation of the program other than cpu_exec that ticks both timers.
TimerTick == Next /\ ~CpuExec /\ dt' = Ticked(dt) /\ st' = Ticked(st)

\* C15: there is a timer-tick operation separate from cpu_exec: whenever a
\* timer is non-zero (after Fx15 or Fx18 set it), an operation other than
\* cpu_exec can run that decrements each non-zero timer by 1 and leaves a zero
\* timer at zero.
C15_TimerTickOffered == (~panicked /\ (dt > 0 \/ st > 0)) => ENABLED TimerTick

\* C16: the framebuffer changes only in a cpu_exec step that executes a clear
\* 00E0 or a draw Dxyn; a display tick never sets a pixel.
C16_OnlyClearAndDrawWrite ==
    [][display' # display =>
           (ExecStep /\ (Fetched = 224 \/ Fetched \div 4096 = 13))]_vars

\* The instructions that are neither a control transfer, a conditional skip nor
\* wait-for-key: clear-display, 6xkk, 7xkk, the 8xy_ family, Annn, Cxkk, Dxyn,
\* Fx07, Fx15, Fx18, Fx1E, Fx29, Fx33, Fx55, Fx65.
IsStraightLine(cmd) ==
    \/ cmd = 224
    \/ cmd \div 4096 \in {6, 7, 10, 12, 13}
    \/ cmd \div 4096 = 8 /\ cmd % 16 \in {0, 1, 2, 3, 4, 5, 6, 7, 14}
    \/ cmd \div 4096 = 15 /\ cmd % 256 \in {7, 21, 24, 30, 41, 51, 85, 101}

\* C17: a cpu_exec step that executes a straight-line instruction advances pc
\* by exactly 2.
C17_StraightLineAdvances ==
    [][(ExecStep /\ IsStraightLine(Fetched)) => pc' = pc + 2]_vars

\* The words that are not an assigned opcode of their family: 8xyN with N in
\* {8, 9, A, B, C, D, F}, 5xyN and 9xyN with N # 0, ExNN other than Ex9E and
\* ExA1, FxNN other than the nine assigned codes.
IsUnassigned(cmd) ==
    \/ cmd \div 4096 = 8 /\ cmd % 16 \in {8, 9, 10, 11, 12, 13, 15}
    \/ cmd \div 4096 \in {5, 9} /\ cmd % 16 # 0
    \/ cmd \div 4096 = 14 /\ cmd % 256 \notin {158, 161}
    \/ cmd \div 4096 = 15 /\ cmd % 256 \notin {7, 10, 21, 24, 30, 41, 51, 85, 101}

\* C18: a cpu_exec step on an unassigned instruction word does not fault and
\* changes no part of the machine state.
C18_UnassignedIsNoOp ==
    [][(ExecStep /\ IsUnassigned(Fetched)) => (UNCHANGED cpu_vars /\ ~panicked')]_vars

\* C19: add-immediate 7xkk never faults, sets Vx to (Vx + kk) mod 256, leaves
\* VF unchanged (for x # 15) and advances pc by 2.
C19_AddImmediateWraps ==
    [][(ExecStep /\ Fetched \div 4096 = 7) =>
           LET x == (Fetched \div 256) % 16
               kk == Fetched % 256
           IN  /\ ~panicked'
               /\ v'[x] = (v[x] + kk) % 256
               /\ x # 15 => v'[15] = v[15]
               /\ pc' = pc + 2]_vars

\* C20: shift-right 8xy6 (x <= 14) sets VF to the least-significant bit of the
\* value Vy held before the instruction and Vx to that value shifted right by
\* 1, also when y = 15.
C20_ShiftRight ==
    [][(/\ ExecStep
        /\ Fetched \div 4096 = 8
        /\ Fetched % 16 = 6
        /\ (Fetched \div 256) % 16 <= 14) =>
           LET x == (Fetched \div 256) % 16
               y == (Fetched \div 16) % 16
           IN  /\ v'[15] = v[y] % 2
               /\ v'[x] = v[y] \div 2]_vars

\* C21: a successful load_rom, also after instructions have run or after an
\* earlier load, changes only memory from 0x200 onward and rom_size: the V
\* registers, I, pc, the stack, both timers, keypad and framebuffer are kept.
C21_LoadKeepsCpu ==
    [][(/\ ret'.kind = "Ok"
        /\ \E path \in ReloadPaths : LoadRomWithin(path, MaxReloads)) =>
           /\ UNCHANGED <<v, i, pc, stack, dt, st, keypad, display>>
           /\ \A a \in 0..511 : MemAt(memory', a) = MemAt(memory, a)
           /\ ~panicked']_vars

\* C21 witness: a second ROM was loaded over the first while a call was
\* pending and after the pc and a pixel were set.
C21_Witness ==
    /\ ret = [kind |-> "Ok", bytes_read |-> 8]
    /\ loads = 2
    /\ stack = <<512>>
    /\ pc = 516
    /\ display # BlankDisplay
    /\ MemAt(memory, 512) = 106

C23_ReturnStaysInMemory ==
    /\ [](\A k \in 1..Len(stack) : stack[k] <= 4094)
    /\ [][(ExecStep /\ Fetched = 238 /\ stack # <<>>) =>
              (pc' = stack[Len(stack)] /\ pc' + 1 <= 4095 /\ ~panicked')]_vars

\* C23 witness: a return has popped 0xFFE, pushed by the call in the last two
\* bytes of memory.
C23_Witness ==
    /\ JustRan
    /\ Ran = 238
    /\ prev.cpu.stack = <<4094>>
    /\ stack = <<>>
    /\ pc = 4094
    /\ Fetched = 12284
====
